---- MODULE Spec2Model ----
(***************************************************************************)
(* Model of email_send/emailsend.py: the welcome-email job.  One process:  *)
(* module-level configuration validation, main() selecting test mode or    *)
(* service mode, process_users() polling the users collection, and         *)
(* send_welcome_email() rendering the template and talking to the relay.   *)
(* The store, the relay, the template file and the interrupt signal are    *)
(* the environment: each of their outcomes is a nondeterministic choice.   *)
(***************************************************************************)
EXTENDS Integers, Sequences, FiniteSets, TLC

\* ------------------------------------------------------------------ bounds
\* The users collection holds up to this many documents.
MaxUsers == 2
\* Poll cycles are counted up to this value; the counter then stays there.
MaxCycles == 2

\* ------------------------------------------------------------------ values
\* Line 145: the default of --interval, in seconds.
DefaultInterval == 60
\* The intervals a command line gives: the default, and a negative one,
\* which argparse's type=int accepts.
Intervals == {DefaultInterval, -1}

\* A field that the document (or the command line) does not have: dict.get
\* and argparse both give None for it.
Absent == "<absent>"
Address == "a@example.com"
TestAddress == "t@example.com"

EmailValues == {Absent, "", Address}
FirstNameValues == {Absent, "Ada"}
FlagValues == {Absent, "False", "True"}
UserDocs == [email : EmailValues, firstName : FirstNameValues,
             welcome_email_sent : FlagValues]
NoUser == [_id |-> 0, email |-> Absent, firstName |-> Absent]
\* The collections: documents in natural order, the position being the _id.
Collections == UNION {[1..n -> UserDocs] : n \in 0..MaxUsers}
\* The collection of the three-user scenario: one user already sent, one
\* without an email, one unsent with a valid email.
Scenario ==
    << [email |-> Address, firstName |-> "Ada", welcome_email_sent |-> "True"],
       [email |-> Absent, firstName |-> "Ada", welcome_email_sent |-> Absent],
       [email |-> Address, firstName |-> "Ada", welcome_email_sent |-> "False"] >>
\* The command lines: no flags, --test alone, --test with an empty or a real
\* --test-email.
CommandLines == {<<FALSE, Absent>>, <<TRUE, Absent>>, <<TRUE, "">>,
                 <<TRUE, TestAddress>>}

VARIABLES
    pc,            \* position of the single thread of control
    status,        \* process exit status, -1 while running
    cause,         \* what ended the process, "none" while running
    config,        \* environment variables: "ok", "no_mongo_uri", "no_gmail"
    template,      \* the template file: "ok", "missing", "malformed"
    test,          \* args.test
    test_email,    \* args.test_email
    interval,      \* args.interval
    users,         \* the users collection: _id -> document
    users0,        \* the collection as it was at process start
    cycleStart,    \* the collection as it was when the current cycle began
    cursor,        \* users_to_email: the documents not yet iterated
    user,          \* the loop variable of process_users
    to_email,      \* argument of the running/last send_welcome_email call
    first_name,    \* argument of the running/last send_welcome_email call
    success,       \* return value of the last send_welcome_email call
    failure,       \* stage at which the last dispatcher call failed, or "none"
    cycle,         \* number of poll cycles begun (counted up to MaxCycles)
    attempts,      \* per _id: send_welcome_email calls in the current cycle
    updates,       \* per _id: update_one calls in the current cycle
    outcome,       \* per _id: how the current cycle dealt with the candidate
    calls,         \* send_welcome_email calls in the current cycle or test run
    delivered,     \* _ids to which some send has succeeded
    deliveredStart,\* delivered, as it was when the current cycle began
    queryError,    \* TRUE once a count or fetch query has raised
    fetches,       \* find() calls in the current cycle
    sleeps,        \* sleeps completed since the last poll began
    sleptFor,      \* length of the last completed sleep, 0 before the first
    markFailedIds, \* _ids for which some mark update has failed
    storeUsed      \* TRUE once a store connection, query or update was made

vars == <<pc, status, cause, config, template, test, test_email, users, users0,
          cycleStart, cursor, user, to_email, first_name, success, failure,
          cycle, attempts, updates, outcome, calls, delivered, deliveredStart,
          queryError, storeUsed, interval, fetches, sleeps, sleptFor,
          markFailedIds>>

\* ------------------------------------------------------- pure definitions
\* Python truthiness of an optional string: None and "" are falsy.
Truthy(s) == s # Absent /\ s # ""

\* Mutant of Matches: the query without its $exists clause.
MatchesFalseOnly(doc) == doc.welcome_email_sent = "False"

\* The query of process_users: welcome_email_sent missing or False.
Matches(doc) ==
    doc.welcome_email_sent = Absent \/ doc.welcome_email_sent = "False"

\* users_collection.count_documents(query)
CountDocuments(coll) == Cardinality({i \in DOMAIN coll : Matches(coll[i])})

\* Mutant of Find: find() without the query.
FindAll(coll) ==
    [i \in DOMAIN coll |->
        [_id |-> i, email |-> coll[i].email, firstName |-> coll[i].firstName,
         welcome_email_sent |-> coll[i].welcome_email_sent]]

\* users_collection.find(query): the matching documents, in natural order,
\* each carrying its _id.
Find(coll) ==
    LET docs == [i \in DOMAIN coll |->
                    [_id |-> i, email |-> coll[i].email,
                     firstName |-> coll[i].firstName,
                     welcome_email_sent |-> coll[i].welcome_email_sent]]
    IN  SelectSeq(docs, Matches)

\* Mutant of UpdateOne: the update writes False.
UpdateOneFalse(coll, id) ==
    [coll EXCEPT ![id].welcome_email_sent = "False"]

\* Mutant of UpdateOne: update_many with the query in place of the _id.
UpdateMany(coll, id) ==
    [i \in DOMAIN coll |->
        IF Matches(coll[i]) THEN [coll[i] EXCEPT !.welcome_email_sent = "True"]
                            ELSE coll[i]]

\* Mutant of UpdateOne: the update sets another field and leaves the flag.
UpdateOneOtherField(coll, id) == coll

\* update_one({'_id': id}, {'$set': {'welcome_email_sent': True}})
UpdateOne(coll, id) ==
    [coll EXCEPT ![id].welcome_email_sent = "True"]

\* user.get('firstName', 'User')
FirstNameOf(doc) == IF doc.firstName = Absent THEN "User" ELSE doc.firstName

CursorIds(c) == {c[i]._id : i \in DOMAIN c}

Zero == [i \in DOMAIN users |-> 0]
NoOutcome == [i \in DOMAIN users |-> "none"]

\* ------------------------------------------------------------------- init
Init ==
    /\ pc = "module"
    /\ status = -1
    /\ cause = "none"
    /\ config \in {"ok", "no_mongo_uri", "no_gmail"}
    /\ template \in {"ok", "missing", "malformed"}
    /\ \E cl \in CommandLines : test = cl[1] /\ test_email = cl[2]
    /\ users \in Collections \cup {Scenario}
    /\ users0 = users
    /\ cycleStart = users
    /\ cursor = <<>>
    /\ user = NoUser
    /\ to_email = Absent
    /\ first_name = Absent
    /\ success = FALSE
    /\ failure = "none"
    /\ cycle = 0
    /\ attempts = Zero
    /\ updates = Zero
    /\ outcome = NoOutcome
    /\ calls = 0
    /\ delivered = {}
    /\ deliveredStart = {}
    /\ queryError = FALSE
    /\ storeUsed = FALSE
    /\ interval \in IF test THEN {DefaultInterval} ELSE Intervals
    /\ fetches = 0
    /\ sleeps = 0
    /\ sleptFor = 0
    /\ markFailedIds = {}

\* sys.exit(code), or the interpreter ending the process.
Exit(code, why) ==
    /\ pc' = "exited"
    /\ status' = code
    /\ cause' = why

Env == <<config, template, test, test_email, interval, users0>>
More == <<fetches, sleeps, sleptFor, markFailedIds>>
Call == <<to_email, first_name, success, failure>>
CycleGhost == <<cycleStart, attempts, updates, outcome, deliveredStart>>
Store == <<queryError, storeUsed>>

\* ------------------------------------------------- module level and main()
\* Lines 39-46: missing MONGODB_URI or Gmail credentials end the process.
ValidateConfig ==
    /\ pc = "module"
    /\ IF config = "ok"
         THEN pc' = "main" /\ UNCHANGED <<status, cause>>
         ELSE Exit(1, "config")
    /\ UNCHANGED <<Env, More, users, cursor, user, Call, cycle, CycleGhost, calls,
                   delivered, Store>>

\* Mutant of MainTest: the test send uses the default name of line 118.
MainTestDefaultName ==
    /\ pc = "main"
    /\ test
    /\ IF ~Truthy(test_email)
         THEN /\ Exit(1, "usage")
              /\ UNCHANGED <<to_email, first_name, calls>>
         ELSE /\ pc' = "send_load"
              /\ to_email' = test_email
              /\ first_name' = "User"
              /\ calls' = calls + 1
              /\ UNCHANGED <<status, cause>>
    /\ UNCHANGED <<Env, More, users, cursor, user, success, failure, cycle,
                   CycleGhost, delivered, Store>>

\* Lines 148-152: test mode; send_test_email (line 90) calls the dispatcher
\* with the fixed name "Test User".
MainTest ==
    /\ pc = "main"
    /\ test
    /\ IF ~Truthy(test_email)
         THEN /\ Exit(1, "usage")
              /\ UNCHANGED <<to_email, first_name, calls>>
         ELSE /\ pc' = "send_load"
              /\ to_email' = test_email
              /\ first_name' = "Test User"
              /\ calls' = calls + 1
              /\ UNCHANGED <<status, cause>>
    /\ UNCHANGED <<Env, More, users, cursor, user, success, failure, cycle,
                   CycleGhost, delivered, Store>>

\* Lines 153-165: service mode acquires the store connection once.
Connect ==
    /\ pc = "main"
    /\ ~test
    /\ storeUsed' = TRUE
    /\ \E ok \in BOOLEAN :
         IF ok THEN pc' = "count" /\ UNCHANGED <<status, cause>>
               ELSE Exit(1, "connect")
    /\ UNCHANGED <<Env, More, users, cursor, user, Call, cycle, CycleGhost, calls,
                   delivered, queryError>>

\* ---------------------------------------------------------- process_users
\* Mutant of QueryFailed: the error is logged and process_users returns.
QueryFailedLogged == pc' = "sleep" /\ UNCHANGED <<status, cause>>

\* Lines 112-114: a count or fetch error is logged and followed by sys.exit(1).
QueryFailed == Exit(1, "query")

\* Mutant of Count: no early return on a zero count.
CountNoEarlyReturn ==
    /\ pc = "count"
    /\ cycle' = IF cycle < MaxCycles THEN cycle + 1 ELSE cycle
    /\ cycleStart' = users
    /\ deliveredStart' = delivered
    /\ attempts' = Zero
    /\ updates' = Zero
    /\ outcome' = NoOutcome
    /\ calls' = 0
    /\ cursor' = <<>>
    /\ user' = NoUser
    /\ storeUsed' = TRUE
    /\ \E ok \in BOOLEAN :
         IF ok
           THEN pc' = "fetch" /\ UNCHANGED <<status, cause, queryError>>
           ELSE queryError' = TRUE /\ QueryFailed
    /\ fetches' = 0
    /\ sleeps' = 0
    /\ UNCHANGED <<Env, sleptFor, markFailedIds, users, Call, delivered>>

\* Lines 100-108: a poll cycle begins with the count; zero returns at once.
Count ==
    /\ pc = "count"
    /\ cycle' = IF cycle < MaxCycles THEN cycle + 1 ELSE cycle
    /\ cycleStart' = users
    /\ deliveredStart' = delivered
    /\ attempts' = Zero
    /\ updates' = Zero
    /\ outcome' = NoOutcome
    /\ calls' = 0
    /\ cursor' = <<>>
    /\ user' = NoUser
    /\ storeUsed' = TRUE
    /\ \E ok \in BOOLEAN :
         IF ok
           THEN /\ pc' = IF CountDocuments(users) = 0 THEN "sleep" ELSE "fetch"
                /\ UNCHANGED <<status, cause, queryError>>
           ELSE queryError' = TRUE /\ QueryFailed
    /\ fetches' = 0
    /\ sleeps' = 0
    /\ UNCHANGED <<Env, sleptFor, markFailedIds, users, Call, delivered>>

\* Line 111: the fetch of the users to email.
Fetch ==
    /\ pc = "fetch"
    /\ storeUsed' = TRUE
    /\ \E ok \in BOOLEAN :
         IF ok
           THEN /\ cursor' = Find(users)
                /\ pc' = "for"
                /\ UNCHANGED <<status, cause, queryError>>
           ELSE queryError' = TRUE /\ QueryFailed /\ UNCHANGED cursor
    /\ fetches' = fetches + 1
    /\ UNCHANGED <<Env, sleeps, sleptFor, markFailedIds, users, user, Call,
                   cycle, CycleGhost, calls, delivered>>

\* Line 116: the for loop takes the next document, or ends the cycle when
\* the sequence is exhausted.
ForNext ==
    /\ pc = "for"
    /\ IF cursor = <<>>
         THEN pc' = "sleep" /\ UNCHANGED <<cursor, user>>
         ELSE pc' = "body" /\ user' = Head(cursor) /\ cursor' = Tail(cursor)
    /\ UNCHANGED <<status, cause, Env, More, users, Call, cycle, CycleGhost, calls,
                   delivered, Store>>

\* Line 116: the cursor is lazy, so a store error can surface while it is
\* iterated, outside the try block of lines 102-114; the exception reaches
\* main's `except Exception` (lines 177-179).
CursorError ==
    /\ pc = "for"
    /\ cursor # <<>>
    /\ Exit(1, "cursor")
    /\ UNCHANGED <<Env, More, users, cursor, user, Call, cycle, CycleGhost, calls,
                   delivered, Store>>

\* Mutant of NoEmail: `email is None` in place of `not email`.
NoEmailNoneOnly(doc) == doc.email = Absent

\* Line 120: `not email` holds for a missing (None) and for an empty email.
NoEmail(doc) == ~Truthy(doc.email)

\* Lines 117-122: a document without a usable email is skipped.
SkipNoEmail ==
    /\ pc = "body"
    /\ NoEmail(user)
    /\ outcome' = [outcome EXCEPT ![user._id] = "skipped"]
    /\ pc' = "for"
    /\ UNCHANGED <<status, cause, Env, More, users, cursor, user, Call, cycle,
                   cycleStart, deliveredStart, attempts, updates, calls,
                   delivered, Store>>

\* Mutant of CallSend: the flag is set before the send (mark, then send).
CallSendMarksFirst ==
    /\ pc = "body"
    /\ ~NoEmail(user)
    /\ to_email' = user.email
    /\ first_name' = FirstNameOf(user)
    /\ attempts' = [attempts EXCEPT ![user._id] = @ + 1]
    /\ calls' = calls + 1
    /\ users' = UpdateOne(users, user._id)
    /\ pc' = "send_load"
    /\ UNCHANGED <<status, cause, Env, More, cursor, user, success, failure,
                   cycle, cycleStart, deliveredStart, updates, outcome,
                   delivered, Store>>

\* Line 124: the call of send_welcome_email(email, first_name).
CallSend ==
    /\ pc = "body"
    /\ ~NoEmail(user)
    /\ to_email' = user.email
    /\ first_name' = FirstNameOf(user)
    /\ attempts' = [attempts EXCEPT ![user._id] = @ + 1]
    /\ calls' = calls + 1
    /\ pc' = "send_load"
    /\ UNCHANGED <<status, cause, Env, More, users, cursor, user, success, failure,
                   cycle, cycleStart, deliveredStart, updates, outcome,
                   delivered, Store>>

\* Mutant of SendFailed: the failed send ends the cycle (a return in the
\* else branch).
SendFailedAborts ==
    /\ pc = "after_send"
    /\ ~success
    /\ outcome' = [outcome EXCEPT ![user._id] = "send_failed"]
    /\ pc' = "sleep"
    /\ UNCHANGED <<status, cause, Env, More, users, cursor, user, Call, cycle,
                   cycleStart, deliveredStart, attempts, updates, calls,
                   delivered, Store>>

\* Lines 136-137: a failed send is logged; the loop goes on.
SendFailed ==
    /\ pc = "after_send"
    /\ ~success
    /\ outcome' = [outcome EXCEPT ![user._id] = "send_failed"]
    /\ pc' = "for"
    /\ UNCHANGED <<status, cause, Env, More, users, cursor, user, Call, cycle,
                   cycleStart, deliveredStart, attempts, updates, calls,
                   delivered, Store>>

\* Mutant of MarkSent: the success branch logs without the update.
MarkSentSkipsUpdate ==
    /\ pc = "after_send"
    /\ success
    /\ outcome' = [outcome EXCEPT ![user._id] = "marked"]
    /\ pc' = "for"
    /\ UNCHANGED <<status, cause, Env, More, users, cursor, user, Call, cycle,
                   cycleStart, deliveredStart, attempts, updates, calls,
                   delivered, Store>>

\* Mutant of MarkSent: the update is not guarded by the result of the send.
MarkSentAlways ==
    /\ pc = "after_send"
    /\ users' = UpdateOne(users, user._id)
    /\ updates' = [updates EXCEPT ![user._id] = @ + 1]
    /\ outcome' = [outcome EXCEPT ![user._id] = "marked"]
    /\ storeUsed' = TRUE
    /\ pc' = "for"
    /\ UNCHANGED <<status, cause, Env, More, cursor, user, Call, cycle, cycleStart,
                   deliveredStart, attempts, calls, delivered, queryError>>

\* Lines 126-133: after a successful send the document is marked.
MarkSent ==
    /\ pc = "after_send"
    /\ success
    /\ users' = UpdateOne(users, user._id)
    /\ updates' = [updates EXCEPT ![user._id] = @ + 1]
    /\ outcome' = [outcome EXCEPT ![user._id] = "marked"]
    /\ storeUsed' = TRUE
    /\ pc' = "for"
    /\ UNCHANGED <<status, cause, Env, More, cursor, user, Call, cycle, cycleStart,
                   deliveredStart, attempts, calls, delivered, queryError>>

\* Mutant of MarkFailed: no try around update_one, so the exception reaches
\* main's `except Exception`.
MarkFailedRaises ==
    /\ pc = "after_send"
    /\ success
    /\ updates' = [updates EXCEPT ![user._id] = @ + 1]
    /\ outcome' = [outcome EXCEPT ![user._id] = "mark_failed"]
    /\ storeUsed' = TRUE
    /\ Exit(1, "update")
    /\ markFailedIds' = markFailedIds \cup {user._id}
    /\ UNCHANGED <<Env, fetches, sleeps, sleptFor, users, cursor, user, Call,
                   cycle, cycleStart, deliveredStart, attempts, calls,
                   delivered, queryError>>

\* Lines 134-135: a failed update is logged; the loop goes on.
MarkFailed ==
    /\ pc = "after_send"
    /\ success
    /\ updates' = [updates EXCEPT ![user._id] = @ + 1]
    /\ outcome' = [outcome EXCEPT ![user._id] = "mark_failed"]
    /\ markFailedIds' = markFailedIds \cup {user._id}
    /\ storeUsed' = TRUE
    /\ pc' = "for"
    /\ UNCHANGED <<status, cause, Env, fetches, sleeps, sleptFor, users,
                   cursor, user, Call, cycle, cycleStart, deliveredStart,
                   attempts, calls, delivered, queryError>>

\* ----------------------------------------------------- send_welcome_email
\* Mutant of LoadTemplate: the missing file is caught in the dispatcher and
\* comes back as False.
LoadTemplateReturnsFalse ==
    /\ pc = "send_load"
    /\ success' = FALSE
    /\ IF template = "missing"
         THEN /\ pc' = IF test THEN "test_done" ELSE "after_send"
              /\ failure' = "template_load"
         ELSE /\ pc' = "send_render"
              /\ failure' = "none"
    /\ UNCHANGED <<status, cause, Env, More, users, cursor, user, to_email,
                   first_name, cycle, CycleGhost, calls, delivered, Store>>

\* Line 64 with lines 50-57: the template is read outside the try block of
\* the dispatcher; a missing file is sys.exit(1), which no handler on the
\* way up catches.
LoadTemplate ==
    /\ pc = "send_load"
    /\ success' = FALSE
    /\ IF template = "missing"
         THEN Exit(1, "template_missing") /\ failure' = "template_load"
         ELSE /\ pc' = "send_render"
              /\ failure' = "none"
              /\ UNCHANGED <<status, cause>>
    /\ UNCHANGED <<Env, More, users, cursor, user, to_email, first_name, cycle,
                   CycleGhost, calls, delivered, Store>>

\* Line 65: str.format raises (KeyError, IndexError, ValueError) on a
\* template with other braces, still outside the try block.  In service
\* mode the exception reaches main's `except Exception` (lines 177-179); in
\* test mode nothing catches it and the interpreter ends with status 1.
Render ==
    /\ pc = "send_render"
    /\ IF template = "malformed"
         THEN Exit(1, "template_format") /\ failure' = "template_format"
         ELSE pc' = "send_smtp" /\ UNCHANGED <<status, cause, failure>>
    /\ UNCHANGED <<Env, More, users, cursor, user, to_email, first_name, success,
                   cycle, CycleGhost, calls, delivered, Store>>

\* The SMTP session of lines 78-80: it goes through, or the connection, the
\* login or the transmission raises.
SmtpOutcomes == {"ok", "connect", "login", "sendmail"}
SmtpFailures == SmtpOutcomes \ {"ok"}

\* Where send_welcome_email returns to: line 91 or line 126.
ReturnPc == IF test THEN "test_done" ELSE "after_send"

\* Mutant of Smtp: the handler catches smtplib.SMTPException only, so a
\* connection error (an OSError) leaves the dispatcher as an exception.
SmtpConnectRaises ==
    /\ pc = "send_smtp"
    /\ \E r \in SmtpOutcomes :
         /\ success' = (r = "ok")
         /\ failure' = IF r = "ok" THEN "none" ELSE r
         /\ delivered' = IF r = "ok" /\ ~test
                           THEN delivered \cup {user._id} ELSE delivered
         /\ IF r = "connect"
              THEN Exit(1, "smtp")
              ELSE pc' = ReturnPc /\ UNCHANGED <<status, cause>>
    /\ UNCHANGED <<Env, More, users, cursor, user, to_email, first_name, cycle,
                   CycleGhost, calls, Store>>

\* Lines 76-85: every Exception of the session is caught and becomes the
\* return value False.
Smtp ==
    /\ pc = "send_smtp"
    /\ \E r \in SmtpOutcomes :
         /\ success' = (r = "ok")
         /\ failure' = IF r = "ok" THEN "none" ELSE r
         /\ delivered' = IF r = "ok" /\ ~test
                           THEN delivered \cup {user._id} ELSE delivered
    /\ pc' = ReturnPc
    /\ UNCHANGED <<status, cause, Env, More, users, cursor, user, to_email,
                   first_name, cycle, CycleGhost, calls, Store>>

\* Lines 91-94 and the end of main: the result of the test send is logged
\* and main returns.
TestDone ==
    /\ pc = "test_done"
    /\ Exit(0, "done")
    /\ UNCHANGED <<Env, More, users, cursor, user, Call, cycle, CycleGhost, calls,
                   delivered, Store>>

\* ------------------------------------------------------- the service loop
\* Mutant of Sleep: no `while True`, the service ends after one poll.
SleepOnce ==
    /\ pc = "sleep"
    /\ Exit(0, "done")
    /\ UNCHANGED <<Env, More, users, cursor, user, Call, cycle, CycleGhost, calls,
                   delivered, Store>>

\* Lines 170-173: after the sleep the loop polls again.  time.sleep raises
\* ValueError for a negative length; the exception reaches main's
\* `except Exception` (lines 177-179).
Sleep ==
    /\ pc = "sleep"
    /\ IF interval < 0
         THEN Exit(1, "sleep") /\ UNCHANGED <<sleeps, sleptFor>>
         ELSE /\ pc' = "count"
              /\ sleeps' = sleeps + 1
              /\ sleptFor' = interval
              /\ UNCHANGED <<status, cause>>
    /\ UNCHANGED <<Env, fetches, markFailedIds, users, cursor, user, Call,
                   cycle, CycleGhost, calls, delivered, Store>>

\* The program positions inside the try block of lines 169-173.
LoopPcs == {"count", "fetch", "for", "body", "send_load", "send_render",
            "send_smtp", "after_send", "sleep"}

\* Lines 174-176: KeyboardInterrupt anywhere in the loop; it is no
\* Exception, so the handlers of process_users and of the dispatcher let it
\* through to main, which exits 0.  An interrupt that arrives inside
\* update_one (lines 129-132) finds the write either not yet sent to the
\* store or already applied by it.
Interrupt ==
    /\ ~test
    /\ pc \in LoopPcs
    /\ Exit(0, "interrupt")
    /\ IF pc = "after_send" /\ success
         THEN users' \in {users, UpdateOne(users, user._id)}
         ELSE users' = users
    /\ UNCHANGED <<Env, More, cursor, user, Call, cycle, CycleGhost, calls,
                   delivered, Store>>

\* The steps of the program itself; Interrupt is the environment's.
Step ==
    \/ ValidateConfig
    \/ MainTest
    \/ Connect
    \/ Count
    \/ Fetch
    \/ ForNext
    \/ CursorError
    \/ SkipNoEmail
    \/ CallSend
    \/ SendFailed
    \/ MarkSent
    \/ MarkFailed
    \/ LoadTemplate
    \/ Render
    \/ Smtp
    \/ TestDone
    \/ Sleep

Next == Step \/ Interrupt

Spec == Init /\ [][Next]_vars

\* The liveness specification starts from the collections whose documents
\* all carry a first name: the name is only handed to the dispatcher and
\* plays no part in the control flow.
InitFair == Init /\ \A i \in DOMAIN users : users[i].firstName # Absent

\* The program takes its next step as long as it has one; the interrupt may
\* never come.
FairSpec == InitFair /\ [][Next]_vars /\ WF_vars(Step)

\* The _id values of the collections.
UserIds == (1..MaxUsers) \cup DOMAIN Scenario

\* Eventual delivery starts from the three-user scenario and from the
\* collections whose documents carry an email or none and a flag that is
\* true or missing: the empty email is skipped as the missing one is, and
\* the false flag is selected as the missing one is.
InitDelivery ==
    /\ InitFair
    /\ \/ users = Scenario
       \/ \A i \in DOMAIN users :
            users[i].email # "" /\ users[i].welcome_email_sent # "False"

\* The assumptions of eventual delivery: the program keeps taking steps, and
\* for each user neither the SMTP session nor the mark update fails forever.
DeliverySpec ==
    /\ InitDelivery
    /\ [][Next]_vars
    /\ WF_vars(Step)
    /\ \A i \in UserIds :
         /\ SF_vars(Smtp /\ success' /\ user._id = i)
         /\ SF_vars(MarkSent /\ user._id = i)

\* ============================================================ properties
HasEmail(doc) == doc.email # Absent /\ doc.email # ""
Unsent(doc) == doc.welcome_email_sent # "True"
\* The document was marked by this run of the program.
Marked(i) == ~Unsent(users[i]) /\ Unsent(users0[i])
\* A step that completes a poll cycle: process_users returns.
CycleEnds == pc # "sleep" /\ pc' = "sleep"
Handled == {"send_failed", "marked", "mark_failed"}

\* C1 as stated: every completed poll cycle makes exactly one send attempt
\* to each user that was unsent with a non-empty email, and once a send to a
\* user has succeeded no further send attempt is made to that user.
C1_AsStated ==
    [][ /\ CycleEnds =>
             \A i \in DOMAIN users :
                 Unsent(cycleStart'[i]) /\ HasEmail(users[i]) => attempts'[i] = 1
        /\ \A i \in delivered : attempts'[i] <= attempts[i] ]_vars

\* C1 (amended): every poll cycle that runs to completion makes exactly one
\* send attempt to each user that was unsent (flag false or absent) with a
\* non-empty email when the cycle began, cycle after cycle, until a send to
\* the user has succeeded and the mark update has set the flag; once the
\* flag is true no further send attempt is made to the user.
C1_OneAttemptPerCycleUntilMarked ==
    [][ /\ CycleEnds =>
             \A i \in DOMAIN users :
                 Unsent(cycleStart'[i]) /\ HasEmail(users[i]) => attempts'[i] = 1
        /\ \A i \in DOMAIN users :
             ~Unsent(users[i]) => attempts'[i] <= attempts[i] ]_vars

\* A later cycle has completed with a repeated attempt to a user whose
\* earlier send had failed.
C1_Witness ==
    /\ pc = "sleep"
    /\ cycle >= 2
    /\ \E i \in DOMAIN users :
         /\ Unsent(cycleStart[i]) /\ HasEmail(users[i])
         /\ i \notin deliveredStart
         /\ attempts[i] = 1

\* C2: once a user has been sent to and marked, no later step makes a send
\* attempt or an update for that user, and no later fetch selects the user.
C2_MarkedNeverSelected ==
    [][ \A i \in DOMAIN users :
          Marked(i) =>
            /\ attempts'[i] <= attempts[i]
            /\ updates'[i] <= updates[i]
            /\ cursor' # cursor => i \notin CursorIds(cursor') ]_vars

\* A later cycle ran over another candidate and left the marked user alone.
C2_Witness ==
    /\ pc = "sleep"
    /\ cycle >= 2
    /\ \E i, j \in DOMAIN users :
         /\ Marked(i) /\ ~Unsent(cycleStart[i])
         /\ attempts[i] = 0 /\ updates[i] = 0 /\ outcome[i] = "none"
         /\ outcome[j] \in Handled

\* C3: a user without an email (field absent or empty) is never passed to
\* the dispatcher and never marked, whatever happens to the other
\* candidates, and after the skip the loop goes on with the next candidate.
C3_NoEmailNeverSentNeverMarked ==
    /\ [] /\ \A i \in DOMAIN users :
               ~HasEmail(users[i]) =>
                   /\ attempts[i] = 0 /\ updates[i] = 0
                   /\ users[i] = users0[i]
                   /\ i \notin delivered
          /\ pc \in {"send_load", "send_render", "send_smtp"} => HasEmail([email |-> to_email])
    /\ [][ pc = "body" /\ ~HasEmail(user) /\ cause' # "interrupt" =>
             /\ pc' = "for" /\ cursor' = cursor /\ users' = users
             /\ outcome'[user._id] = "skipped" ]_vars

\* A cycle skipped a user without email and went on to handle a later one.
C3_Witness ==
    /\ pc = "sleep"
    /\ \E i, j \in DOMAIN users :
         /\ i < j
         /\ ~HasEmail(users[i]) /\ outcome[i] = "skipped"
         /\ outcome[j] \in Handled

\* C4: the only change the program makes to a document is the sent flag
\* going from unsent (false or absent) to true; a true flag stays true, and
\* the mark applied to a marked document leaves it as it is.
C4_OnlyUnsentToSent ==
    /\ [][ \A i \in DOMAIN users :
             /\ users'[i] # users[i] =>
                  /\ Unsent(users[i])
                  /\ users'[i] = [users[i] EXCEPT !.welcome_email_sent = "True"]
             /\ ~Unsent(users[i]) => ~Unsent(users'[i]) ]_vars
    /\ [] \A i \in DOMAIN users :
            ~Unsent(users[i]) => UpdateOne(users, i) = users

\* Documents went from absent to true and from false to true.
C4_Witness ==
    /\ \E i \in DOMAIN users :
         users0[i].welcome_email_sent = Absent /\ users[i].welcome_email_sent = "True"
    /\ \E i \in DOMAIN users :
         users0[i].welcome_email_sent = "False" /\ users[i].welcome_email_sent = "True"

\* C5 as stated: the dispatcher never raises or ends the process from
\* inside itself; every failure during a call, the template load and the
\* substitution included, comes back as the return value False.
C5_AsStated ==
    /\ cause \notin {"template_missing", "template_format"}
    /\ failure # "none" => ~success

\* C5 (amended): every failure of the SMTP session (connection, login,
\* transmission) comes back to the caller as the return value False, and a
\* session that goes through as True; a failure of the template load or of
\* the substitution is not returned: a missing template file ends the
\* process with status 1 from inside the call, and a substitution error
\* leaves the call as an exception that ends the process with status 1.
C5_SessionFailuresReturnFalse ==
    [][ /\ pc = "send_smtp" /\ cause' # "interrupt" =>
             /\ pc' = ReturnPc
             /\ failure' \in SmtpFailures \cup {"none"}
             /\ success' = (failure' = "none")
        /\ pc = "send_load" /\ template = "missing" /\ cause' # "interrupt" =>
             pc' = "exited" /\ status' = 1 /\ ~success'
        /\ pc = "send_render" /\ template = "malformed" /\ cause' # "interrupt" =>
             pc' = "exited" /\ status' = 1 /\ ~success' ]_vars

\* A failed login has come back to process_users as False.
C5_Witness ==
    /\ pc = "after_send"
    /\ failure = "login"
    /\ ~success

\* C6: a failed send leaves the candidate unmarked and the loop goes on:
\* when the cycle ends every candidate of the cycle has been dealt with,
\* those without email skipped and the others given their one send attempt.
C6_SendFailureDoesNotAbort ==
    [][ /\ pc = "after_send" /\ ~success /\ cause' # "interrupt" =>
             /\ pc' = "for" /\ cursor' = cursor /\ users' = users
             /\ outcome'[user._id] = "send_failed"
        /\ CycleEnds =>
             \A i \in DOMAIN users :
                 Unsent(cycleStart'[i]) =>
                     /\ outcome'[i] # "none"
                     /\ (outcome'[i] = "skipped") = ~HasEmail(users[i])
                     /\ HasEmail(users[i]) => attempts'[i] = 1
                     /\ outcome'[i] = "send_failed" => users'[i] = cycleStart'[i] ]_vars

\* A cycle has ended in which the first candidate's send failed and the
\* second candidate was still dealt with.
C6_Witness ==
    /\ pc = "sleep"
    /\ \E i, j \in DOMAIN users :
         /\ i < j
         /\ outcome[i] = "send_failed" /\ Unsent(users[i])
         /\ outcome[j] # "none"

\* C7: a mark update that fails after a successful send does not abort the
\* cycle and leaves the flag unsent; the next cycle's count and fetch select
\* the user again, and that cycle makes another send attempt to the user.
C7_MarkFailureDuplicates ==
    [][ /\ pc = "after_send" /\ success /\ users' = users /\ cause' # "interrupt" =>
             /\ pc' = "for" /\ cursor' = cursor
             /\ outcome'[user._id] = "mark_failed"
             /\ Unsent(users'[user._id])
        /\ pc = "count" /\ cause' = "none" =>
             \A i \in DOMAIN users :
                 outcome[i] = "mark_failed" => Unsent(users[i]) /\ pc' = "fetch"
        /\ pc = "fetch" /\ cause' = "none" =>
             \A i \in delivered : Unsent(users[i]) => i \in CursorIds(cursor')
        /\ CycleEnds =>
             \A i \in deliveredStart' :
                 Unsent(cycleStart'[i]) => attempts'[i] = 1 ]_vars

\* A cycle has ended in which a user who had already been sent to
\* successfully was sent to successfully again.
C7_Witness ==
    /\ pc = "sleep"
    /\ \E i \in deliveredStart :
         /\ Unsent(cycleStart[i])
         /\ attempts[i] = 1
         /\ outcome[i] \in {"marked", "mark_failed"}

\* C8 as stated: a count or fetch query error inside a poll cycle does not
\* end the process.
C8_AsStated == ~(pc = "exited" /\ cause = "query")

\* C8 (amended): store errors are fatal at startup, when the connection
\* cannot be acquired, and also in every poll cycle: a count or fetch query
\* error ends the process with status 1, so the loop does not sleep and poll
\* again.
C8_QueryErrorFatal ==
    /\ queryError => pc = "exited" /\ status = 1 /\ cause = "query"
    /\ cause = "connect" => pc = "exited" /\ status = 1 /\ cycle = 0

\* A query raised in a cycle after the first.
C8_Witness == queryError /\ cycle >= 2 /\ pc = "exited"

\* The errors that end the process from inside the loop body.
LoopErrors == {"query", "cursor", "template_missing", "template_format",
               "sleep"}

\* C9: once the polling loop has started the process ends only by an
\* interrupt, with status 0 wherever in the loop it arrives, or by an error
\* leaving the loop body, with a non-zero status; otherwise polls go on
\* forever.
C9_ServiceEndsOnlyByInterruptOrError ==
    /\ [][ ~test /\ pc \in LoopPcs /\ pc' \notin LoopPcs =>
              /\ pc' = "exited"
              /\ \/ cause' = "interrupt" /\ status' = 0
                 \/ cause' \in LoopErrors /\ status' > 0 ]_vars
    /\ [](~test /\ pc \in LoopPcs => ENABLED Interrupt)
    /\ []<>(pc = "count") \/ <>(pc = "exited")

\* An interrupt arrived in a later cycle while a candidate's send or update
\* was under way.
C9_Witness ==
    /\ pc = "exited" /\ cause = "interrupt" /\ status = 0
    /\ cycle >= 2
    /\ \E i \in DOMAIN users : attempts[i] = 1 /\ outcome[i] = "none"

TestPcs == {"module", "main", "send_load", "send_render", "send_smtp",
            "test_done", "exited"}

\* C10: test mode with an address makes exactly one send attempt, to that
\* address with the name "Test User", never touches the store, and ends;
\* test mode without an address makes no send attempt and exits non-zero.
C10_TestMode ==
    test =>
      /\ ~storeUsed /\ users = users0 /\ cursor = <<>>
      /\ pc \in TestPcs
      /\ calls <= 1
      /\ calls = 1 => to_email = test_email /\ first_name = "Test User"
      /\ pc = "exited" /\ cause # "config" =>
           IF test_email # Absent /\ test_email # ""
             THEN calls = 1
             ELSE calls = 0 /\ status > 0

\* A test run has ended after its one send went through.
C10_Witness ==
    /\ test /\ pc = "exited" /\ cause = "done"
    /\ calls = 1 /\ success
    /\ to_email = TestAddress /\ first_name = "Test User"

\* C11 as stated: the exit status is 0 exactly when the run ends by the
\* interrupt in service mode or after a successful test send; every other
\* end (missing configuration, failed store connection, missing template,
\* missing test address, failed test send, error leaving the loop) is
\* non-zero.
C11_AsStated ==
    pc = "exited" =>
        (status = 0) = \/ ~test /\ cause = "interrupt"
                       \/ test /\ cause = "done" /\ success

\* C12: a mark update changes only the sent flag of the one document of the
\* candidate just sent to; documents already sent and documents without an
\* email come out of a cycle as they went in, with no send attempt and no
\* update.  The three-user scenario yields exactly one send attempt and one
\* mark update in a cycle whose send succeeds.
C12_MarkTouchesOneFlag ==
    [][ /\ users' # users =>
             /\ pc = "after_send" /\ success
             /\ Unsent(users[user._id])
             /\ users' = [users EXCEPT ![user._id].welcome_email_sent = "True"]
        /\ CycleEnds =>
             \A i \in DOMAIN users :
                 ~Unsent(cycleStart'[i]) \/ ~HasEmail(cycleStart'[i]) =>
                     /\ users'[i] = cycleStart'[i]
                     /\ attempts'[i] = 0 /\ updates'[i] = 0
        /\ CycleEnds /\ cycleStart' = Scenario
                     /\ outcome'[3] \in {"marked", "mark_failed"} =>
             /\ calls' = 1
             /\ attempts' = <<0, 0, 1>>
             /\ updates' = <<0, 0, 1>>
             /\ users'[1] = Scenario[1] /\ users'[2] = Scenario[2] ]_vars

\* The scenario's cycle has ended with its one send and its one mark.
C12_Witness ==
    /\ pc = "sleep"
    /\ cycleStart = Scenario
    /\ outcome = <<"none", "skipped", "marked">>
    /\ calls = 1
    /\ users = [Scenario EXCEPT ![3].welcome_email_sent = "True"]

\* C13: with the template file absent the first send attempt, in test mode
\* or for the first candidate with an email, ends the whole process with a
\* non-zero status; no email is transmitted, no document is marked, and the
\* failure is never handled as a failed send of that candidate.
C13_MissingTemplateIsFatal ==
    template = "missing" =>
        /\ users = users0 /\ delivered = {} /\ ~success
        /\ pc \notin {"send_render", "send_smtp", "after_send", "test_done"}
        /\ \A i \in DOMAIN users : outcome[i] \notin Handled /\ updates[i] = 0
        /\ calls <= 1
        /\ calls = 1 => pc \in {"send_load", "exited"}
        /\ pc = "exited" /\ calls = 1 /\ cause # "interrupt" =>
               cause = "template_missing" /\ status = 1

\* The service ended on the missing template at its first candidate with an
\* email, after skipping one without.
C13_Witness ==
    /\ template = "missing" /\ ~test
    /\ pc = "exited" /\ cause = "template_missing" /\ status = 1
    /\ calls = 1
    /\ \E i, j \in DOMAIN users :
         /\ outcome[i] = "skipped"
         /\ attempts[j] = 1 /\ outcome[j] = "none"

\* A step that begins a poll: the count of process_users is issued.
PollBegins == pc = "count" /\ cause' # "interrupt"

\* C14 as stated: polls and sleeps alternate, starting with a poll: the first
\* poll runs before any sleep, every completed poll cycle is followed by
\* exactly one sleep of the configured interval, and a poll begins only after
\* the sleep that follows the previous one.
C14_AsStated ==
    [][ /\ PollBegins =>
             IF cycle = 0 THEN sleeps = 0
                          ELSE sleeps = 1 /\ sleptFor = interval
        /\ pc = "sleep" /\ cause' # "interrupt" =>
             pc' = "count" /\ sleeps' = 1 /\ sleptFor' = interval
        /\ sleeps' > sleeps => pc = "sleep" ]_vars

\* C14, the part the code keeps: with a non-negative interval polls and
\* sleeps alternate as stated; with a negative interval the sleep after the
\* first poll raises and the process ends with status 1.
C14_AlternateForNonNegativeInterval ==
    [][ /\ PollBegins =>
             IF cycle = 0 THEN sleeps = 0
                          ELSE sleeps = 1 /\ sleptFor = interval
        /\ pc = "sleep" /\ cause' # "interrupt" =>
             IF interval >= 0
               THEN pc' = "count" /\ sleeps' = 1 /\ sleptFor' = interval
               ELSE pc' = "exited" /\ status' = 1 /\ sleeps' = 0 /\ cycle = 1
        /\ sleeps' > sleeps => pc = "sleep" ]_vars

\* C15: with a zero count the cycle returns at once, with no fetch, no send
\* attempt and no update; with a non-zero count of documents that all lack
\* an email the cycle runs through the sequence, skipping each, and still
\* makes no send attempt and no update.
C15_ZeroCountAndNoEmailCycles ==
    [][ CycleEnds =>
          LET pending == {i \in DOMAIN users : Unsent(cycleStart'[i])} IN
          /\ pending = {} =>
               /\ pc = "count"
               /\ fetches' = 0 /\ calls' = 0
               /\ attempts' = Zero /\ updates' = Zero
               /\ cursor' = <<>> /\ users' = users
          /\ pending # {} /\ (\A i \in pending : ~HasEmail(cycleStart'[i])) =>
               /\ pc = "for"
               /\ fetches' = 1 /\ calls' = 0
               /\ attempts' = Zero /\ updates' = Zero
               /\ users' = cycleStart'
               /\ \A i \in pending : outcome'[i] = "skipped" ]_vars

\* A later cycle found nothing left to send, the earlier one having marked
\* a user, and returned without a fetch.
C15_Witness ==
    /\ pc = "sleep"
    /\ cycle >= 2
    /\ fetches = 0 /\ calls = 0
    /\ \E i \in DOMAIN users : Marked(i)

\* The dispatcher is running for the current candidate.
SendInFlight == pc \in {"send_load", "send_render", "send_smtp"}
\* update_one is running for the current candidate.
MarkInFlight == pc = "after_send" /\ success

\* C16 as stated: an interrupt while a send or a mark update for a candidate
\* is in flight leaves that candidate's flag exactly as it was before the
\* interrupted operation, so that a later run selects the candidate again.
C16_AsStated ==
    [][ cause' = "interrupt" /\ (SendInFlight \/ MarkInFlight) =>
            /\ users' = users
            /\ Matches(users'[user._id]) ]_vars

\* C16 amended: an interrupt during the send leaves the collection
\* unchanged and the candidate unsent, so a later run selects the candidate
\* again; an interrupt during the mark update leaves every other document
\* unchanged and the candidate's flag either as it was, in which case a
\* later run selects the candidate again, or already set to true by the
\* store.
C16_InterruptedSendOrMark ==
    [][ /\ cause' = "interrupt" /\ SendInFlight =>
             /\ users' = users
             /\ Matches(users'[user._id])
        /\ cause' = "interrupt" /\ MarkInFlight =>
             /\ \A i \in DOMAIN users : i # user._id => users'[i] = users[i]
             /\ \/ users'[user._id] = users[user._id]
                   /\ Matches(users'[user._id])
                \/ users'[user._id] =
                       [users[user._id] EXCEPT !.welcome_email_sent = "True"] ]_vars

\* The process was interrupted inside the mark update of a candidate whose
\* send had succeeded, and the store had already applied the update.
C16_Witness ==
    /\ pc = "exited" /\ cause = "interrupt"
    /\ user # NoUser
    /\ attempts[user._id] = 1
    /\ outcome[user._id] = "none"
    /\ Unsent(cycleStart[user._id])
    /\ ~Unsent(users[user._id])

\* C17: a document's flag changes only in the mark update that follows a
\* send to that document's email which returned success in the same poll
\* cycle; every document marked by the program has had a successful send;
\* a document whose send failed or was skipped in a cycle is left as the
\* cycle found it.
C17_MarkOnlyAfterSuccessfulSend ==
    /\ [][ \A i \in DOMAIN users :
             users'[i] # users[i] =>
                 /\ pc = "after_send" /\ success
                 /\ user._id = i
                 /\ to_email = users[i].email
                 /\ attempts[i] = 1 /\ outcome[i] = "none"
                 /\ i \in delivered ]_vars
    /\ [] \A i \in DOMAIN users :
            /\ Marked(i) => i \in delivered
            /\ outcome[i] \in {"send_failed", "skipped"} => users[i] = cycleStart[i]

\* In one cycle a user was marked after a successful send and another was
\* left unsent after a failed one.
C17_Witness ==
    /\ \E i \in DOMAIN users :
         Marked(i) /\ outcome[i] = "marked" /\ i \in delivered
    /\ \E j \in DOMAIN users :
         outcome[j] = "send_failed" /\ Unsent(users[j])

\* The pending users that have an email.
PendingWithEmail ==
    {i \in DOMAIN users : HasEmail(users[i]) /\ Unsent(users[i])}

\* C18: in service mode, unless the process ends (by an interrupt or a fatal
\* error), every user with a non-empty email that was unsent is eventually
\* sent to successfully and marked, and from then on no user with an email
\* is pending; once empty, the set of pending users with an email stays
\* empty.
C18_EventualDelivery ==
    /\ \/ <>(pc = "exited")
       \/ <>[](/\ PendingWithEmail = {}
               /\ \A i \in DOMAIN users :
                    HasEmail(users0[i]) /\ Unsent(users0[i]) =>
                        Marked(i) /\ i \in delivered)
    /\ [][PendingWithEmail = {} => PendingWithEmail' = {}]_vars

\* After a cycle in which a mark had failed, a later cycle has sent again
\* and marked, and no user with an email is pending.
C18_Witness ==
    /\ pc = "sleep"
    /\ cycle >= 2
    /\ PendingWithEmail = {}
    /\ \E i \in DOMAIN users :
         Marked(i) /\ i \in delivered /\ i \in markFailedIds

\* C19: a send to a user succeeds a second time only if a mark update for
\* that user has failed; a user sent to successfully whose mark update has
\* never failed is marked, unless the mark is still to come or the process
\* was interrupted between the send and the mark.
C19_BoundedDuplicates ==
    /\ [][ pc = "send_smtp" /\ pc' = "after_send" /\ success'
             /\ user._id \in delivered
           => user._id \in markFailedIds ]_vars
    /\ [] \A i \in delivered \ markFailedIds :
            \/ ~Unsent(users[i])
            \/ /\ user._id = i /\ success
               /\ \/ pc = "after_send"
                  \/ pc = "exited" /\ cause = "interrupt"

\* A user whose mark update had failed has been sent to successfully again
\* in a later cycle.
C19_Witness ==
    /\ pc = "after_send" /\ success
    /\ user._id \in deliveredStart
    /\ user._id \in markFailedIds
    /\ attempts[user._id] = 1

TypeOK ==
    /\ status \in {-1, 0, 1}
    /\ cycle \in 0..MaxCycles
    /\ calls \in 0..(IF test THEN 1 ELSE Len(users))
    /\ fetches \in 0..1 /\ sleeps \in 0..1
    /\ \A i \in DOMAIN users : attempts[i] \in 0..1 /\ updates[i] \in 0..1

====
